---- MODULE Spec2Model ----
(***************************************************************************)
(* Model of detection.ipynb: the threshold solver                          *)
(* snr_threshold_given_false_positive_rate, the detection probability      *)
(* evaluator true_positive_rate_given_snr_and_threshold and the slider     *)
(* callback interactive_detection_plot.                                    *)
(*                                                                         *)
(* The notebook computes in IEEE float64.  A float is modelled here as a   *)
(* decimal floating-point number [k, m, e]: k is "fin", "inf", "ninf" or   *)
(* "nan"; a finite value is m * 10^e with m = 0 or 10^7 <= |m| < 10^8      *)
(* (eight significant digits), and e is unbounded.  The two places where   *)
(* the width of float64 decides what the code does are modelled with the   *)
(* float64 constants themselves: the rounding of 1 - p to the float64 grid *)
(* next to 1 (Float64OneMinus) and the overflow of 10**y (Pow10).          *)
(***************************************************************************)
EXTENDS Integers, Sequences, FiniteSets, TLC

-----------------------------------------------------------------------------
(* Decimal floating-point arithmetic                                       *)

Half == 10^4
MantLo == 10^7
Mant == 10^8

Abs(n) == IF n < 0 THEN -n ELSE n
Sgn(n) == IF n < 0 THEN -1 ELSE IF n = 0 THEN 0 ELSE 1

\* n / 10^d rounded to nearest (half away from zero), d >= 0
RoundShift(n, d) ==
  IF d = 0 THEN n
  ELSE IF d > 9 THEN 0
  ELSE Sgn(n) * ((Abs(n) + (10^d) \div 2) \div (10^d))

\* the float m * 10^e with the mantissa brought to eight digits, |m| < 2^31
Norm(m, e) ==
  LET A == Abs(m)
      F(k) == [k |-> "fin", m |-> m * 10^k, e |-> e - k]
  IN IF A = 0 THEN [k |-> "fin", m |-> 0, e |-> 0]
     ELSE IF A >= 10^9 THEN [k |-> "fin", m |-> RoundShift(m, 2), e |-> e + 2]
     ELSE IF A >= 10^9 - 5 THEN [k |-> "fin", m |-> Sgn(m) * MantLo, e |-> e + 2]
     ELSE IF A >= Mant THEN [k |-> "fin", m |-> RoundShift(m, 1), e |-> e + 1]
     ELSE IF A >= MantLo THEN [k |-> "fin", m |-> m, e |-> e]
     ELSE IF A >= 10^6 THEN F(1)
     ELSE IF A >= 10^5 THEN F(2)
     ELSE IF A >= 10^4 THEN F(3)
     ELSE IF A >= 10^3 THEN F(4)
     ELSE IF A >= 10^2 THEN F(5)
     ELSE IF A >= 10 THEN F(6)
     ELSE F(7)

\* the decimal literal n * 10^e
Dec(n, e) == Norm(n, e)
FromInt(n) == Norm(n, 0)

Zero == Dec(0, 0)
One == Dec(1, 0)
Two == Dec(2, 0)
Ten == Dec(10, 0)
NaN == [k |-> "nan", m |-> 0, e |-> 0]
PosInf == [k |-> "inf", m |-> 0, e |-> 0]
NegInf == [k |-> "ninf", m |-> 0, e |-> 0]

IsFinite(a) == a.k = "fin"
IsNaN(a) == a.k = "nan"

Neg(a) ==
  CASE a.k = "fin" -> [a EXCEPT !.m = -a.m]
    [] a.k = "inf" -> NegInf
    [] a.k = "ninf" -> PosInf
    [] OTHER -> NaN

\* finite arithmetic: the operands are finite
FAdd(a, b) ==
  IF a.m = 0 THEN b
  ELSE IF b.m = 0 THEN a
  ELSE LET hi == IF a.e >= b.e THEN a ELSE b
           lo == IF a.e >= b.e THEN b ELSE a
           d  == hi.e - lo.e
       IN IF d > 9 THEN hi
          ELSE Norm(hi.m * 10 + (IF d = 0 THEN lo.m * 10 ELSE RoundShift(lo.m, d - 1)),
                    hi.e - 1)

FSub(a, b) == FAdd(a, Neg(b))

FMul(a, b) ==
  IF a.m = 0 \/ b.m = 0 THEN Zero
  ELSE LET A  == Abs(a.m)
           B  == Abs(b.m)
           a1 == A \div Half
           a0 == A % Half
           b1 == B \div Half
           b0 == B % Half
           t  == a1 * b0 + a0 * b1 + (a0 * b0) \div Half
           q  == a1 * b1 + t \div Half
           f  == t % Half
           s  == Sgn(a.m) * Sgn(b.m)
       IN IF q >= MantLo
          THEN Norm(s * (q + (IF f >= Half \div 2 THEN 1 ELSE 0)), a.e + b.e + 8)
          ELSE Norm(s * (q * 10 + (f + 500) \div 1000), a.e + b.e + 7)

RECURSIVE DivDigits(_, _, _, _)
DivDigits(r, B, n, acc) ==
  IF n = 0 THEN acc + (IF 2 * r >= B THEN 1 ELSE 0)
  ELSE DivDigits((r * 10) % B, B, n - 1, acc * 10 + (r * 10) \div B)

\* b is not zero
FDiv(a, b) ==
  IF a.m = 0 THEN Zero
  ELSE LET A == Abs(a.m)
           B == Abs(b.m)
       IN Norm(Sgn(a.m) * Sgn(b.m) * DivDigits(A % B, B, 8, A \div B), a.e - b.e - 8)

\* a / n for an integer 0 < n < 10^4
FDivInt(a, n) ==
  IF a.m = 0 THEN Zero
  ELSE LET A == Abs(a.m)
           d == IF n < 10 THEN 1 ELSE IF n < 100 THEN 2 ELSE IF n < 1000 THEN 3 ELSE 4
           r == (A % n) * 10^d
       IN Norm(Sgn(a.m) * ((A \div n) * 10^d + r \div n + (IF 2 * (r % n) >= n THEN 1 ELSE 0)),
               a.e - d)

FLt(a, b) == FSub(a, b).m < 0
FLe(a, b) == FSub(a, b).m <= 0
FAbs(a) == [a EXCEPT !.m = Abs(a.m)]

\* the largest integer n <= a, for |a| < 10^9
FloorInt(a) ==
  IF a.m = 0 THEN 0
  ELSE IF a.e >= 0 THEN a.m * 10^(a.e)
  ELSE IF -a.e > 9 THEN (IF a.m < 0 THEN -1 ELSE 0)
  ELSE a.m \div 10^(-a.e)

Ln10 == Dec(23025851, -7)

\* e^r for 0 <= r < 2.4 by its Taylor series
RECURSIVE ExpSeries(_, _, _, _)
ExpSeriesAdd(r, t, sum, i) == ExpSeries(r, t, FAdd(sum, t), i + 1)
ExpSeries(r, term, sum, i) ==
  IF term.m = 0 \/ term.e < sum.e - 10 \/ i > 60 THEN sum
  ELSE ExpSeriesAdd(r, FDivInt(FMul(term, r), i), sum, i)

\* s * 10^n for a finite s
TimesPow10(s, n) == [s EXCEPT !.e = s.e + n]

\* e^x = 10^n * e^r with r = x - n ln 10, for n = floor(x / ln 10)
ExpReduced(x, n) ==
  LET r0 == FSub(x, FMul(FromInt(n), Ln10))
  IN TimesPow10(ExpSeries(IF r0.m < 0 THEN Zero ELSE r0, One, One, 1), n)

\* e^x, x finite with |x| < 10^8
Exp(x) ==
  IF x.m = 0 THEN One
  ELSE ExpReduced(x, FloorInt(FDiv(x, Ln10)))

\* 2 * (z + z^3/3 + z^5/5 + ...) = ln((1+z)/(1-z)), |z| < 0.52
RECURSIVE AtanhSeries(_, _, _, _)
AtanhSeriesAdd(z2, p, sum, i) == AtanhSeries(z2, p, FAdd(sum, FDivInt(p, i)), i + 2)
AtanhSeries(z2, pow, sum, i) ==
  IF pow.m = 0 \/ pow.e < sum.e - 10 \/ i > 99 THEN sum
  ELSE AtanhSeriesAdd(z2, FMul(pow, z2), sum, i)

\* ln((1+z)/(1-z)), |z| < 0.52
LnRatio(z) ==
  IF z.m = 0 THEN Zero
  ELSE FMul(Two, AtanhSeries(FMul(z, z), z, z, 3))

\* ln x for finite x > 0: x = y * 10^E with 0.32 < y <= 3.2, and
\* ln y = ln((1+z)/(1-z)) for z = (y - 1) / (y + 1)
Ln(x) ==
  LET big == x.m > 31622777
      y == [x EXCEPT !.e = IF big THEN -8 ELSE -7]
      E == IF big THEN x.e + 8 ELSE x.e + 7
  IN FAdd(FMul(FromInt(E), Ln10), LnRatio(FDiv(FSub(y, One), FAdd(y, One))))

-----------------------------------------------------------------------------
(* float64 and numpy/scipy operations used by the notebook                 *)

\* 2^53 and 2^-53: the float64 grid next below 1 is 2^-53, next above 2^-52
TwoPow53 == Dec(90071993, 8)
TwoPowM53 == Dec(11102230, -23)

\* k (finite, >= 0) rounded to the nearest integer, ties to even; k < 10^7
RoundHalfEven(k) ==
  IF k.m = 0 \/ -k.e > 9 THEN 0
  ELSE LET d == -k.e
           q == k.m \div 10^d
           r == k.m % 10^d
           h == (10^d) \div 2
       IN IF r > h \/ (r = h /\ q % 2 = 1) THEN q + 1 ELSE q

\* v >= 0 rounded to the nearest multiple of the grid step 1/scale
RoundToGrid(v, scale) ==
  LET k == FMul(v, scale)
  IN IF k.m = 0 \/ k.e >= 0 THEN v
     ELSE FDiv(FromInt(RoundHalfEven(k)), scale)

(* 1 - false_positive_rate in float64 (line 47).  The difference is held   *)
(* as the pair [y, c]: y is the float64 result and c = 1 - y its distance  *)
(* from 1, which float64 holds exactly on the grid 2^-53 below 1 (2^-52    *)
(* above 1); eight decimal digits of y alone would lose a small p.         *)
BelowOne(c) == [y |-> FSub(One, c), c |-> c]
Float64OneMinus(p) ==
  IF ~IsFinite(p) THEN [y |-> NaN, c |-> NaN]
  ELSE BelowOne(IF p.m >= 0
                THEN (IF FLt(p, Dec(5, -1)) THEN RoundToGrid(p, TwoPow53) ELSE p)
                ELSE (IF FLt(FAbs(p), One)
                      THEN Neg(RoundToGrid(FAbs(p), FDiv(TwoPow53, Two)))
                      ELSE p))

\* the regularized lower incomplete gamma function P(1, x) = 1 - e^-x for
\* small x >= 0, by its series x - x^2/2! + x^3/3! - ...
RECURSIVE GammaincSeries(_, _, _, _)
GammaincSeriesAdd(x, t, sum, i) == GammaincSeries(x, t, FAdd(sum, t), i + 1)
GammaincSeries(x, term, sum, i) ==
  IF term.m = 0 \/ term.e < sum.e - 10 \/ i > 60 THEN sum
  ELSE GammaincSeriesAdd(x, Neg(FDivInt(FMul(term, x), i)), sum, i)

\* scipy.special.gammainc(1, x), x >= 0 finite
gammainc(x) ==
  IF x.m = 0 THEN Zero
  ELSE IF FLt(x, Dec(7, -1)) THEN GammaincSeries(x, x, x, 2)
  ELSE FSub(One, Exp(Neg(x)))

\* scipy.special.gammaincc(1, x) = e^-x
gammaincc(x) == Exp(Neg(x))

MaxNewton == 80

\* Newton's iteration for gammainc(1, x) = q.y from the left of the root,
\* on gammaincc when the target is nearer 1 and on gammainc otherwise
RECURSIVE InvertGammainc(_, _, _)
\* the Newton step at x, where E = gammaincc(1, x) is the derivative
NewtonStep(q, x, E) ==
  IF FLe(q.c, Dec(5, -1))
  THEN FSub(One, FDiv(q.c, E))
  ELSE FDiv(FSub(q.y, gammainc(x)), E)
InvertGammaincTo(q, x, nxt, i) ==
  IF i >= MaxNewton \/ FLe(nxt, x) THEN x
  ELSE InvertGammainc(q, nxt, i + 1)
InvertGammainc(q, x, i) ==
  InvertGammaincTo(q, x, FAdd(x, NewtonStep(q, x, gammaincc(x))), i)

\* where the iteration starts: 0, or for a target 1 - c with c < 10^-n the
\* point n ln 10, which is left of the root
NewtonStart(q) ==
  IF q.c.e + 8 < 0 THEN FMul(FromInt(-(q.c.e + 8)), Ln10) ELSE Zero

\* a plausible slip: the quantile of the chi-squared distribution itself,
\* twice the incomplete-gamma inverse
gammaincinv_chi2(q) ==
  IF IsNaN(q.y) \/ q.c.m < 0 \/ FLt(One, q.c) THEN NaN
  ELSE IF q.c.m = 0 THEN PosInf
  ELSE IF q.c = One THEN Zero
  ELSE FMul(Two, InvertGammainc(q, NewtonStart(q), 0))

\* scipy.special.gammaincinv(1, y): x with gammainc(1, x) = y; nan outside
\* [0, 1], inf at y = 1, 0 at y = 0
gammaincinv(q) ==
  IF IsNaN(q.y) \/ q.c.m < 0 \/ FLt(One, q.c) THEN NaN
  ELSE IF q.c.m = 0 THEN PosInf
  ELSE IF q.c = One THEN Zero
  ELSE InvertGammainc(q, NewtonStart(q), 0)

\* numpy.log10: -inf at 0 and nan below 0, with a warning and no exception
log10(v) ==
  CASE v.k = "nan" -> NaN
    [] v.k = "inf" -> PosInf
    [] v.k = "ninf" -> NaN
    [] v.m = 0 -> NegInf
    [] v.m < 0 -> NaN
    [] OTHER -> FDiv(Ln(v), Ln10)

\* a * v for a finite a > 0 and any float v
Scale(a, v) == IF IsFinite(v) THEN FMul(a, v) ELSE v

\* a plausible slip: the threshold of the doubled statistic
snr_threshold_doubled(false_positive_rate) ==
  Scale(Ten, log10(Scale(Two, gammaincinv(Float64OneMinus(false_positive_rate)))))

\* lines 41-47: 10*np.log10(sp.special.gammaincinv(1, 1-false_positive_rate))
snr_threshold_given_false_positive_rate(false_positive_rate) ==
  Scale(Ten, log10(gammaincinv(Float64OneMinus(false_positive_rate))))

\* the largest finite float64, 1.7976931e308, and the smallest positive
\* one, 4.9e-324
FloatMax == Dec(17976931, 301)
FloatTiny == Dec(49, -325)

\* a float64 product or power whose magnitude passes FloatMax is inf, one
\* below FloatTiny is 0
Round64(v) ==
  IF ~IsFinite(v) \/ v.m = 0 THEN v
  ELSE IF FLt(FloatMax, FAbs(v)) THEN (IF v.m > 0 THEN PosInf ELSE NegInf)
  ELSE IF FLt(FAbs(v), FloatTiny) THEN Zero
  ELSE v

\* v / 10 in float64
DivTen(v) == IF IsFinite(v) THEN FDiv(v, Ten) ELSE v

\* 10**y as the C library computes it: 10^floor(y) * e^((y - floor(y)) ln 10)
Pow10(y) ==
  CASE y.k = "nan" -> NaN
    [] y.k = "inf" -> PosInf
    [] y.k = "ninf" -> Zero
    [] OTHER ->
       IF FLt(Dec(1, 6), FAbs(y)) THEN (IF y.m > 0 THEN PosInf ELSE Zero)
       ELSE LET n == FloorInt(y)
            IN Round64(TimesPow10(Exp(FMul(FSub(y, FromInt(n)), Ln10)), n))

\* 10**y overflows: Python raises OverflowError for a float y, numpy
\* returns inf with a warning
PowOverflows(y) == IsFinite(y) /\ Pow10(y).k = "inf"

\* a * v in float64, a finite and positive: overflow gives inf, no exception
Times(a, v) == IF IsFinite(v) THEN Round64(FMul(a, v)) ELSE v

\* the length of a run of steps taken one after the other; a longer loop
\* is split in two halves
Chunk == 8

\* the Poisson weight e^-mu mu^n / n! from the weight w at i <= n, by the
\* recurrence w_(i+1) = w_i mu / (i+1)
RECURSIVE PoissonAt(_, _, _, _)
PoissonAt(mu, n, i, w) ==
  IF i = n \/ w.m = 0 THEN w
  ELSE IF n - i <= Chunk
  THEN PoissonAt(mu, n, i + 1, FDivInt(FMul(w, mu), i + 1))
  ELSE PoissonAt(mu, n, (i + n) \div 2, PoissonAt(mu, (i + n) \div 2, i, w))

(* sum over j = 0..N of w_j * U_j, downwards from j = N, where             *)
(* w_j = e^-mu mu^j / j! and U_j = sum over i > j of v_i with              *)
(* v_i = e^-y y^i / i!: U_j is the central chi-squared CDF with 2 + 2j     *)
(* degrees of freedom at x = 2y.  In s, vnext is v_(j+1), U is U_j, w is   *)
(* w_j and acc the sum so far.                                             *)
MixtureTerm(s, vj, Uprev, wprev) ==
  [vnext |-> vj, U |-> Uprev, w |-> wprev, acc |-> FAdd(s.acc, FMul(wprev, Uprev))]
MixtureSum(s, vj, wprev) == MixtureTerm(s, vj, FAdd(s.U, vj), wprev)
MixtureStep(mu, y, j, s) ==
  MixtureSum(s, FDiv(FMul(s.vnext, FromInt(j + 1)), y), FDiv(FMul(s.w, FromInt(j)), mu))

\* the steps from j = hi down to j = lo + 1
RECURSIVE MixtureDown(_, _, _, _, _)
MixtureDown(mu, y, hi, lo, s) ==
  IF hi = lo \/ s.acc.m < 0 THEN s
  ELSE IF hi - lo <= Chunk
  THEN MixtureDown(mu, y, hi - 1, lo, MixtureStep(mu, y, hi, s))
  ELSE MixtureDown(mu, y, (hi + lo) \div 2, lo, MixtureDown(mu, y, hi, (hi + lo) \div 2, s))

\* where the Poisson mixture is cut: past both means by eight deviations
Truncation(mu, y) ==
  LET big == IF FLt(mu, y) THEN y ELSE mu
  IN FloorInt(FMul(big, Dec(15, -1))) + 30

\* the non-central chi-squared CDF with 2 degrees of freedom and
\* non-centrality nc > 0 at x > 0, as the Poisson mixture of central CDFs
AtMostOne(s) == IF FLt(One, s) THEN One ELSE s
MixtureFrom(mu, y, N, wN, vN1) ==
  MixtureDown(mu, y, N, 0, [vnext |-> vN1, U |-> vN1, w |-> wN, acc |-> FMul(wN, vN1)]).acc
Mixture(mu, y, N) ==
  AtMostOne(MixtureFrom(mu, y, N, PoissonAt(mu, N, 0, Exp(Neg(mu))),
                        PoissonAt(y, N + 1, 0, Exp(Neg(y)))))
Ncx2Series(x, nc) ==
  LET y == FDiv(x, Two)
      mu == FDiv(nc, Two)
  IN Mixture(mu, y, Truncation(mu, y))

\* past this size of one argument, with the other less than half of it,
\* the CDF is 0 or 1 to more digits than a float64 holds
FarApart == 10^4

\* scipy.stats.ncx2.cdf(x, 2, nc): nan for a nan argument or a negative or
\* infinite non-centrality, 0 for x <= 0, 1 for x = inf, the central
\* chi-squared CDF for nc = 0
ncx2_cdf(x, nc) ==
  IF IsNaN(x) \/ IsNaN(nc) \/ nc.k = "ninf" \/ (IsFinite(nc) /\ nc.m < 0) THEN NaN
  ELSE IF x.k = "ninf" \/ (IsFinite(x) /\ x.m <= 0) THEN Zero
  ELSE IF x.k = "inf" THEN One
  ELSE IF nc.k = "inf" THEN NaN
  ELSE IF nc.m = 0 THEN gammainc(FDiv(x, Two))
  ELSE IF FLt(FromInt(FarApart), nc) /\ FLt(FMul(Two, x), nc) THEN Zero
  ELSE IF FLt(FromInt(FarApart), x) /\ FLt(FMul(Two, nc), x) THEN One
  ELSE Ncx2Series(x, nc)

\* 1.0 - v
OneMinus(v) == IF IsFinite(v) THEN FSub(One, v) ELSE IF IsNaN(v) THEN NaN ELSE Neg(v)

Returned(v) == [status |-> "return", value |-> v]
Raised == [status |-> "raise", value |-> NaN]

\* a plausible slip: the average-power factor 2.0 left out
true_positive_rate_no_factor(threshold, snr, isPeak, numpy) ==
  IF ~numpy /\ (PowOverflows(DivTen(threshold)) \/ PowOverflows(DivTen(snr)))
  THEN Raised
  ELSE Returned(OneMinus(ncx2_cdf(Times(Two, Pow10(DivTen(threshold))),
                                  Times(One, Pow10(DivTen(snr))))))

(* lines 49-64.  numpy says whether threshold and snr are numpy values (as *)
(* in interactive_detection_plot) or Python floats, for which 10**y raises *)
(* OverflowError where numpy returns inf.                                  *)
true_positive_rate_given_snr_and_threshold(threshold, snr, isPeak, numpy) ==
  LET power_conversion_factor == IF ~isPeak THEN Two ELSE One
  IN IF ~numpy /\ (PowOverflows(DivTen(threshold)) \/ PowOverflows(DivTen(snr)))
     THEN Raised
     ELSE Returned(OneMinus(ncx2_cdf(Times(Two, Pow10(DivTen(threshold))),
                                     Times(power_conversion_factor, Pow10(DivTen(snr))))))

-----------------------------------------------------------------------------
(* interactive_detection_plot and the sliders                              *)

\* np.arange(10, 20, 0.1) has (20 - 10) / 0.1 entries, snr_range[i] = 10 + 0.1 i
snr_range_len == (20 - 10) * 10
snr_range(i) == FAdd(Ten, FMul(Dec(1, -1), FromInt(i)))

\* how many leading entries of snr_range the model evaluates
PlotPoints == 2

\* a plausible slip: the division of line 71 the wrong way round
false_positive_rate_inverted(per_year, num_recordings_per_year) ==
  FDiv(num_recordings_per_year, per_year)

\* line 71
false_positive_rate_of(per_year, num_recordings_per_year) ==
  FDiv(per_year, num_recordings_per_year)

\* lines 68-84: what one run of the callback computes and plots
\* lines 76-84: the curve and the axis limits drawn for a threshold
Plotted(false_positive_rate, threshold_db, white_noise_power) ==
  [false_positive_rate |-> false_positive_rate,
   threshold_db |-> threshold_db,
   probability_of_detection |->
     [i \in 1..PlotPoints |->
        true_positive_rate_given_snr_and_threshold(threshold_db, snr_range(i - 1),
                                                   FALSE, TRUE).value],
   xlim |-> <<FAdd(snr_range(0), white_noise_power),
              FAdd(snr_range(snr_range_len - 1), white_noise_power)>>]

\* lines 68-84: what one run of the callback computes and plots
interactive_detection_plot(wnd, fpy, ms) ==
  LET signal_duration == FDiv(FromInt(ms), FromInt(1000))
      num_recordings_per_year == FDiv(FromInt(365 * 24 * 60 * 60), signal_duration)
      fpr == false_positive_rate_of(fpy, num_recordings_per_year)
  IN Plotted(fpr,
             snr_threshold_given_false_positive_rate(fpr),
             FSub(FromInt(wnd), Scale(Ten, log10(signal_duration))))

\* the slider ranges and start values of lines 97-99; the false positives
\* slider moves in steps of 0.1 and is counted in tenths
WhiteNoiseMin == 60
WhiteNoiseMax == 140
WhiteNoiseStart == 90
FpaMinTenths == 2
FpaMaxTenths == 10000
FpaStartTenths == 10
DurationMin == 1
DurationMax == 50
DurationStart == 25

\* the slider positions the model visits
WhiteNoiseValues == {WhiteNoiseMin, WhiteNoiseStart, 100, 120, WhiteNoiseMax}
FpaTenthsValues == {FpaMinTenths, FpaStartTenths, 50, 1000, FpaMaxTenths}
DurationValues == {DurationMin, 16, DurationStart, 40, DurationMax}

\* the arguments the model calls the threshold solver with
PValues ==
  { Dec(1, -20), Dec(1, -17), Dec(1, -16), Dec(3, -16), Dec(1, -12),
    Dec(79274480, -17), Dec(1, -6), Dec(1, -3), Dec(1, -1), Dec(36787944, -8),
    Dec(5, -1), Dec(9, -1), Dec(999, -3),
    Zero, One, Dec(-1, -1), Dec(15, -1) }

\* 10*log10(2), the offset between the two power conventions
TenLog10Two == Scale(Ten, log10(Two))

\* the arguments the model calls the evaluator with
ThresholdValues == {FromInt(0), FromInt(10), FromInt(13)}
SnrBase == {FromInt(0), FromInt(10), FromInt(13), FromInt(3082)}
SnrValues == SnrBase \cup {FAdd(s, TenLog10Two) : s \in SnrBase}

(* The three functions are pure.  What each returns for the arguments the  *)
(* model uses is computed once and the actions look the results up:        *)
(* comparing a function makes TLC enumerate it, and it then holds its      *)
(* values instead of computing them at every application.                  *)
Tabulated(f) == IF f = f THEN f ELSE f
PlotTable ==
  Tabulated([a \in WhiteNoiseValues \X FpaTenthsValues \X DurationValues |->
               interactive_detection_plot(a[1], Dec(a[2], -1), a[3])])
SolveTable ==
  Tabulated([p \in PValues |-> snr_threshold_given_false_positive_rate(p)])
EvalTable ==
  Tabulated([a \in ThresholdValues \X SnrValues \X BOOLEAN \X BOOLEAN |->
               true_positive_rate_given_snr_and_threshold(a[1], a[2], a[3], a[4])])

VARIABLES
  whitenoisedensity,          \* whitenoiseslider.value
  false_positives_per_year,   \* fpa_slider.value, in tenths
  signal_duration_ms,         \* duration_slider.value
  plot,                       \* what the last run of the callback computed
  solveCalls,                 \* the last two calls of the threshold solver
  evalCalls                   \* the last two calls of the evaluator

vars == <<whitenoisedensity, false_positives_per_year, signal_duration_ms, plot,
          solveCalls, evalCalls>>
sliders == <<whitenoisedensity, false_positives_per_year, signal_duration_ms, plot>>

\* the notebook as displayed: interactive() runs the callback once with the
\* sliders' start values
Init ==
  /\ whitenoisedensity = WhiteNoiseStart
  /\ false_positives_per_year = FpaStartTenths
  /\ signal_duration_ms = DurationStart
  /\ plot = PlotTable[<<WhiteNoiseStart, FpaStartTenths, DurationStart>>]
  /\ solveCalls = <<>>
  /\ evalCalls = <<>>

\* a slider is moved: the callback runs again with the three values
MoveWhiteNoise(v) ==
  /\ v >= WhiteNoiseMin /\ v <= WhiteNoiseMax
  /\ whitenoisedensity' = v
  /\ plot' = PlotTable[<<v, false_positives_per_year, signal_duration_ms>>]
  /\ UNCHANGED <<false_positives_per_year, signal_duration_ms, solveCalls, evalCalls>>

MoveFpa(t) ==
  /\ t >= FpaMinTenths /\ t <= FpaMaxTenths
  /\ false_positives_per_year' = t
  /\ plot' = PlotTable[<<whitenoisedensity, t, signal_duration_ms>>]
  /\ UNCHANGED <<whitenoisedensity, signal_duration_ms, solveCalls, evalCalls>>

MoveDuration(v) ==
  /\ v >= DurationMin /\ v <= DurationMax
  /\ signal_duration_ms' = v
  /\ plot' = PlotTable[<<whitenoisedensity, false_positives_per_year, v>>]
  /\ UNCHANGED <<whitenoisedensity, false_positives_per_year, solveCalls, evalCalls>>

Next ==
  \/ \E v \in WhiteNoiseValues : MoveWhiteNoise(v)
  \/ \E t \in FpaTenthsValues : MoveFpa(t)
  \/ \E v \in DurationValues : MoveDuration(v)

Spec == Init /\ [][Next]_vars

\* the last two calls, the newest last
Push(calls, c) == IF Len(calls) < 2 THEN Append(calls, c) ELSE <<calls[2], c>>

\* a direct call of the threshold solver
SolveThreshold(p) ==
  /\ solveCalls' = Push(solveCalls,
        [p |-> p, out |-> Returned(SolveTable[p])])
  /\ UNCHANGED <<sliders, evalCalls>>

NextSolve == \E p \in PValues : SolveThreshold(p)

SpecSolve == Init /\ [][NextSolve]_vars

\* a direct call of the evaluator
EvaluateDetection(threshold, snr, isPeak, numpy) ==
  /\ evalCalls' = Push(evalCalls,
        [threshold |-> threshold, snr |-> snr, isPeak |-> isPeak, numpy |-> numpy,
         out |-> EvalTable[<<threshold, snr, isPeak, numpy>>]])
  /\ UNCHANGED <<sliders, solveCalls>>

NextEval ==
  \E threshold \in ThresholdValues, snr \in SnrValues, isPeak \in BOOLEAN, numpy \in BOOLEAN :
    EvaluateDetection(threshold, snr, isPeak, numpy)

SpecEval == Init /\ [][NextEval]_vars

-----------------------------------------------------------------------------
(* Comparisons the properties are stated with                              *)

\* p is a number strictly between 0 and 1
InOpenUnit(p) == IsFinite(p) /\ p.m > 0 /\ FLt(p, One)

\* v is a number with 0 <= v <= 1
InClosedUnit(v) == IsFinite(v) /\ v.m >= 0 /\ FLe(v, One)

\* a < b for floats that may be infinite; false when either is nan
Less(a, b) ==
  /\ ~IsNaN(a)
  /\ ~IsNaN(b)
  /\ CASE a.k = "inf" -> FALSE
       [] b.k = "ninf" -> FALSE
       [] a.k = "ninf" -> TRUE
       [] b.k = "inf" -> TRUE
       [] OTHER -> FLt(a, b)

\* |a - b| <= tol, both finite
Within(a, b, tol) == IsFinite(a) /\ IsFinite(b) /\ FLe(FAbs(FSub(a, b)), tol)

\* |a - b| <= rel * |b|, both finite
RelWithin(a, b, rel) ==
  IsFinite(a) /\ IsFinite(b) /\ FLe(FAbs(FSub(a, b)), FMul(rel, FAbs(b)))

(* The decimal arithmetic carries eight digits, so an equality of the code *)
(* is checked to these tolerances: a threshold to 10^-4 dB, a probability  *)
(* to 10^-4, a rate to one part in 10^3.                                   *)
DbTolerance == Dec(1, -4)
ProbTolerance == Dec(1, -4)
RateTolerance == Dec(1, -3)

\* the arguments of the solver that lie in (0, 1)
RateValues == {p \in PValues : InOpenUnit(p)}

(* 10*log10(-ln q) for the rate q = 1 - (1 - p) that float64 keeps of p,   *)
(* computed from the logarithm and not from the incomplete gamma inverse;  *)
(* +inf when q = 0                                                         *)
ClosedForm(p) ==
  LET q == Float64OneMinus(p).c
  IN IF q.m = 0 THEN PosInf ELSE Scale(Ten, log10(Neg(Ln(q))))
ClosedFormTable == Tabulated([p \in RateValues |-> ClosedForm(p)])

\* 10*log10(-2*ln p)
DoubledForm(p) == Scale(Ten, log10(FMul(Two, Neg(Ln(p)))))
DoubledFormTable == Tabulated([p \in RateValues |-> DoubledForm(p)])

(* The noise-only exceedance at the threshold T: the upper tail of the     *)
(* central chi-squared distribution with 2 degrees of freedom at           *)
(* x = 2*10^(T/10), which is e^(-x/2), as float64 holds 1.0 - cdf (on the  *)
(* grid 2^-53 below 0.5).                                                  *)
NoiseTail(T) ==
  LET x == Times(Two, Pow10(DivTen(T)))
  IN CASE IsNaN(x) -> NaN
       [] x.k = "inf" -> Zero
       [] OTHER -> LET t == Exp(Neg(FDiv(x, Two)))
                   IN IF FLt(t, Dec(5, -1)) THEN RoundToGrid(t, TwoPow53) ELSE t
NoiseTailTable == Tabulated([p \in RateValues |-> NoiseTail(SolveTable[p])])

-----------------------------------------------------------------------------
(* The threshold solver, under SpecSolve                                   *)

(* C1: every call of the solver with a false_positive_rate outside (0, 1)  *)
(* ends in a domain error and returns no number.                           *)
C1_DomainError ==
  \A i \in 1..Len(solveCalls) :
    ~InOpenUnit(solveCalls[i].p) => solveCalls[i].out.status = "raise"

C3_ReproducesRate ==
  \A i \in 1..Len(solveCalls) :
    InOpenUnit(solveCalls[i].p) =>
      RelWithin(NoiseTailTable[solveCalls[i].p], solveCalls[i].p, RateTolerance)

\* the rates that float64 keeps apart from 0 in 1 - p to a part in 10^3
LargeRate(p) == InOpenUnit(p) /\ FLe(Dec(1, -12), p)

(* C3 away from the rounding of 1 - p: for 10^-12 <= p < 1 the threshold   *)
(* reproduces the target rate.                                             *)
C3_ReproducesLargeRate ==
  \A i \in 1..Len(solveCalls) :
    LargeRate(solveCalls[i].p) =>
      RelWithin(NoiseTailTable[solveCalls[i].p], solveCalls[i].p, RateTolerance)

(* C6: the solver is strictly decreasing on (0, 1): of two calls with      *)
(* p1 < p2 the first returns the strictly greater threshold.               *)
C6_StrictlyDecreasing ==
  Len(solveCalls) = 2 =>
    ((InOpenUnit(solveCalls[1].p) /\ InOpenUnit(solveCalls[2].p)
        /\ FLt(solveCalls[1].p, solveCalls[2].p))
       => Less(solveCalls[2].out.value, solveCalls[1].out.value))

(* C6 away from the rounding of 1 - p: strictly decreasing on              *)
(* 10^-12 <= p < 1.                                                        *)
C6_DecreasingLargeRate ==
  Len(solveCalls) = 2 =>
    ((LargeRate(solveCalls[1].p) /\ LargeRate(solveCalls[2].p)
        /\ FLt(solveCalls[1].p, solveCalls[2].p))
       => Less(solveCalls[2].out.value, solveCalls[1].out.value))

-----------------------------------------------------------------------------
(* The evaluator, under SpecEval                                           *)

(* C4: for finite threshold and snr and either isPeak the evaluator        *)
(* returns a value p with 0 <= p <= 1 and never raises.                    *)
C4_ReturnsProbability ==
  \A i \in 1..Len(evalCalls) :
    /\ evalCalls[i].out.status = "return"
    /\ InClosedUnit(evalCalls[i].out.value)

\* the second call is the first one again in the peak-power convention
PeakOfAverage(a, b) ==
  /\ ~a.isPeak
  /\ b.isPeak
  /\ b.threshold = a.threshold
  /\ b.numpy = a.numpy
  /\ b.snr = FAdd(a.snr, TenLog10Two)

\* both calls returned, and the same probability
SameProbability(a, b) ==
  /\ a.out.status = "return"
  /\ b.out.status = "return"
  /\ Within(a.out.value, b.out.value, ProbTolerance)

(* C5: the average-power call at snr and the peak-power call at            *)
(* snr + 10*log10(2) return the same value, for every threshold and snr.   *)
C5_ConventionsAgree ==
  Len(evalCalls) = 2 =>
    (PeakOfAverage(evalCalls[1], evalCalls[2])
       => SameProbability(evalCalls[1], evalCalls[2]))

\* an snr for which neither convention overflows
Ordinary(snr) == FLt(snr, FromInt(3000))

(* C5 away from the overflow of 10**(snr/10): the two conventions agree.   *)
C5_AgreeWithoutOverflow ==
  Len(evalCalls) = 2 =>
    ((PeakOfAverage(evalCalls[1], evalCalls[2]) /\ Ordinary(evalCalls[1].snr))
       => SameProbability(evalCalls[1], evalCalls[2]))

\* the second call is the first one again at an snr that is not smaller
SnrRaised(a, b) ==
  /\ b.threshold = a.threshold
  /\ b.isPeak = a.isPeak
  /\ b.numpy = a.numpy
  /\ FLe(a.snr, b.snr)

\* both calls returned, the second a probability that is not smaller
NotSmaller(a, b) ==
  /\ a.out.status = "return"
  /\ b.out.status = "return"
  /\ IsFinite(a.out.value)
  /\ IsFinite(b.out.value)
  /\ FLe(a.out.value, FAdd(b.out.value, ProbTolerance))

(* C7: for a fixed threshold and isPeak the evaluator is non-decreasing in *)
(* snr: of two calls with snr1 <= snr2 the second returns at least the     *)
(* probability of the first.                                               *)
C7_NonDecreasing ==
  Len(evalCalls) = 2 =>
    (SnrRaised(evalCalls[1], evalCalls[2]) => NotSmaller(evalCalls[1], evalCalls[2]))

(* C7 away from the overflow of 10**(snr/10): non-decreasing in snr.       *)
C7_NonDecreasingWithoutOverflow ==
  Len(evalCalls) = 2 =>
    ((SnrRaised(evalCalls[1], evalCalls[2]) /\ Ordinary(evalCalls[2].snr))
       => NotSmaller(evalCalls[1], evalCalls[2]))

\* a call in the average-power convention with snr equal to threshold
AtThreshold(c) == ~c.isPeak /\ c.snr = c.threshold

(* C8 as the spec states it: with snr equal to threshold and average       *)
(* power the evaluator returns a value strictly between 0 and 0.5.         *)
C8_BelowHalf ==
  \A i \in 1..Len(evalCalls) :
    AtThreshold(evalCalls[i]) =>
      /\ evalCalls[i].out.status = "return"
      /\ IsFinite(evalCalls[i].out.value)
      /\ evalCalls[i].out.value.m > 0
      /\ FLt(evalCalls[i].out.value, Dec(5, -1))

(* C8 as the code has it: with snr equal to threshold and average power    *)
(* the evaluator returns a value strictly between 0.5 and 1.               *)
C8_AboveHalf ==
  \A i \in 1..Len(evalCalls) :
    AtThreshold(evalCalls[i]) =>
      /\ evalCalls[i].out.status = "return"
      /\ IsFinite(evalCalls[i].out.value)
      /\ FLt(Dec(5, -1), evalCalls[i].out.value)
      /\ FLt(evalCalls[i].out.value, One)

\* the evaluator has been called at snr = threshold = 13 dB, average power
C8_Witness ==
  \E i \in 1..Len(evalCalls) :
    /\ AtThreshold(evalCalls[i])
    /\ evalCalls[i].threshold = FromInt(13)
    /\ evalCalls[i].out.status = "return"

-----------------------------------------------------------------------------
(* The interactive plot, under Spec                                        *)

\* the sliders stand at 1.0 false positives per year and 25 ms
AtDefaultRate ==
  false_positives_per_year = FpaStartTenths /\ signal_duration_ms = DurationStart

\* the rate per trial derived at line 71 is about 7.93e-10
DefaultRateDerived ==
  RelWithin(plot.false_positive_rate, Dec(793, -12), RateTolerance)

(* C9 as the spec states it: at 1.0 false positives per year and 25 ms the *)
(* derived rate is about 7.93e-10 and the threshold lies between 24 dB and *)
(* 25 dB.                                                                  *)
C9_Threshold24To25 ==
  AtDefaultRate =>
    /\ DefaultRateDerived
    /\ IsFinite(plot.threshold_db)
    /\ FLe(FromInt(24), plot.threshold_db)
    /\ FLe(plot.threshold_db, FromInt(25))

(* C9 as the code has it: at 1.0 false positives per year and 25 ms the    *)
(* derived rate is about 7.93e-10 and the threshold lies between 13 dB and *)
(* 14 dB.                                                                  *)
C9_Threshold13To14 ==
  AtDefaultRate =>
    /\ DefaultRateDerived
    /\ IsFinite(plot.threshold_db)
    /\ FLe(FromInt(13), plot.threshold_db)
    /\ FLe(plot.threshold_db, FromInt(14))

\* the callback has run at 1.0 per year and 25 ms after a slider was moved
C9_Witness ==
  /\ AtDefaultRate
  /\ whitenoisedensity = WhiteNoiseMax
  /\ IsFinite(plot.threshold_db)

(* C10: whatever the sliders are moved to within their ranges, the         *)
(* callback passes the solver a rate strictly between 0 and 1 and plots    *)
(* with a finite threshold.                                                *)
C10_RateInDomain ==
  /\ InOpenUnit(plot.false_positive_rate)
  /\ IsFinite(plot.threshold_db)

\* the callback has run at both ends of the rate: 0.2 per year at 1 ms and
\* 1000 per year at 50 ms are reached by moving two sliders
C10_Witness ==
  /\ false_positives_per_year = FpaMaxTenths
  /\ signal_duration_ms = DurationMax
  /\ whitenoisedensity = WhiteNoiseMin
  /\ InOpenUnit(plot.false_positive_rate)

====
